---- MODULE Spec2Model ----
(***************************************************************************)
(* Document intake, classification and queue drain of the DOC.X backend    *)
(* (src/backend/app.py, src/backend/rag_classifier.py).                    *)
(*                                                                         *)
(* A text is a sequence of whitespace-separated tokens.  Every keyword of  *)
(* the tables below is a single token, so the Python test "kw in text"     *)
(* (substring search) holds exactly when some token of the text contains   *)
(* the keyword.                                                            *)
(*                                                                         *)
(* An optional value (a dictionary key that may be missing, a column that  *)
(* may be NULL) is the empty set or a singleton set.                       *)
(*                                                                         *)
(* Confidence values are kept in hundredths of a point (Pct(60) is the     *)
(* value 60), because the multi-department analysis reports fractions      *)
(* such as 0.8.                                                            *)
(***************************************************************************)
EXTENDS Integers, Sequences, FiniteSets, TLC

VARIABLES
    rag_classifier, \* whether the classifiers were constructed at start-up
    docs,           \* rows of the documents table, in insertion order
    drain,          \* state of the process_pending_documents run
    resp,           \* the last HTTP response produced
    call,           \* the last direct call of the classifier or of the extractor
    web,            \* the /webhook/document requests followed database call by
                    \* database call: the locals of each request
    other_run,      \* state of a second process_pending_documents run, handled
                    \* by another worker, while the worker of drain takes
                    \* the steps
    gmail           \* the mailbox, the attachments uploaded to the backend and
                    \* the polling cycle of GmailIngestionService

vars == <<rag_classifier, docs, drain, resp, call, web, other_run, gmail>>

-----------------------------------------------------------------------------
(* Bounds of the model *)

MaxDocs == 2
MaxUpdates == 1
MaxWords == 2
MaxChars == 10

-----------------------------------------------------------------------------
(* Initial values *)

IdleDrain == [pc |-> "idle"]
NoResp == [op |-> "none"]
NoCall == [made |-> FALSE]

\* the requests followed step by step, and a request not under way
WebRequests == {"r1", "r2"}
IdleRequest == [pc |-> "idle"]

-----------------------------------------------------------------------------
(* Optional values *)

None == {}
Some(x) == {x}
Get(opt, default) == IF opt = {} THEN default ELSE CHOOSE x \in opt : TRUE

Pct(n) == n * 100

-----------------------------------------------------------------------------
(* Texts *)

Words == {"urgent", "budget", "repair", "incidentally", "hello", "URGENT"}

\* str.lower() on the tokens of the model
LowerWord(w) == IF w = "URGENT" THEN "urgent" ELSE w

Lower(text) == [i \in 1..Len(text) |-> LowerWord(text[i])]

\* "kw in token": the substring relation between the tokens and the keywords
TokenContains(tok, kw) ==
    \/ tok = kw
    \/ tok = "incidentally" /\ kw = "incident"

\* Python: kw in text
In(kw, text) == \E i \in 1..Len(text) : TokenContains(text[i], kw)

\* Python: any(kw in text for kw in kws)
AnyIn(kws, text) == \E kw \in kws : In(kw, text)

\* Python: bool(text.strip())
NonBlank(text) == Len(text) > 0

TUrgentFin == <<"URGENT", "budget", "payment", "invoice">>
TIncident == <<"incidentally", "hello">>
TRepair == <<"track", "repair">>
THello == <<"hello">>
TBlank == <<>>

\* the texts submitted to the intake endpoints
Texts == {TUrgentFin, THello, TBlank}

\* the texts of the requests that need no text to succeed
FileTexts == {TUrgentFin, THello}

RECURSIVE SeqsUpTo(_, _)
SeqsUpTo(S, n) ==
    IF n = 0 THEN {<<>>}
    ELSE LET shorter == SeqsUpTo(S, n - 1)
         IN shorter \cup {Append(s, w) : s \in {t \in shorter : Len(t) = n - 1}, w \in S}

\* the texts handed to the classifier when it is called on its own
ClassifierTexts == SeqsUpTo(Words, MaxWords) \cup {TUrgentFin, TIncident}

-----------------------------------------------------------------------------
(* Closed vocabularies *)

ClosedVocabulary == {"Engineering", "Finance", "Human Resources", "Operations",
                     "Safety & Security", "Administration"}

Priorities == {"urgent", "high", "normal", "low"}

StatusSet == {"pending", "processing", "processed", "failed"}

-----------------------------------------------------------------------------
(* The text-generation collaborator: what one call can come back with *)

FailKinds == {"exception", "timeout", "http_error"}

\* department strings the collaborator may put in its JSON answer
AIDepartments == {"finance", "HR", "Safety & Security", "Legal"}

\* markers parse_ai_text_response looks for in a non-JSON answer
TextMarkers == {"engineering", "finance", "hr", "operations", "safety"}

AIFailures == [kind : FailKinds]

AIJsonAnswers ==
    [kind : {"json"},
     department : {None} \cup {Some(d) : d \in AIDepartments} \cup {Some("null")},
     priority : {None, Some("urgent"), Some("low"), Some("critical")},
     confidence : {None, Some(Pct(85)), Some(Pct(150))}]

AITextAnswers ==
    [kind : {"bad_json"}, markers : {{}, {"finance"}, {"hr", "safety"}, {"operations"}}]

AIOutcomes ==
    AIFailures \cup AIJsonAnswers \cup AITextAnswers \cup {[kind |-> "no_brace"]}

\* the answers drawn while the queue is drained
QueueAIOutcomes == {[kind |-> "exception"], [kind |-> "no_brace"]}

\* a failure, and a JSON answer whose priority and confidence are outside the
\* documented ranges
AnswerOutcomes ==
    {[kind |-> "exception"],
     [kind |-> "json", department |-> Some("finance"), priority |-> Some("critical"),
      confidence |-> Some(Pct(150))]}

\* the answers drawn by the intake endpoints
IntakeAIOutcomes ==
    {[kind |-> "exception"],
     [kind |-> "no_brace"],
     [kind |-> "bad_json", markers |-> {"finance"}],
     [kind |-> "json", department |-> Some("HR"), priority |-> Some("low"),
      confidence |-> Some(Pct(85))]}

-----------------------------------------------------------------------------
(* RAGDepartmentClassifier *)

NormalizeKey(d) ==
    CASE d = "HR" -> "hr"
      [] d = "Safety & Security" -> "safety & security"
      [] d = "Legal" -> "legal"
      [] OTHER -> d

normalize_department_name(department) ==
    LET key == NormalizeKey(department)
    IN CASE key = "engineering" -> "Engineering"
         [] key = "finance" -> "Finance"
         [] key = "human resources" -> "Human Resources"
         [] key = "hr" -> "Human Resources"
         [] key = "operations" -> "Operations"
         [] key = "safety" -> "Safety & Security"
         [] key = "safety & security" -> "Safety & Security"
         [] key = "security" -> "Safety & Security"
         [] key = "administration" -> "Administration"
         [] key = "admin" -> "Administration"
         [] OTHER -> "Administration"

RagResult(dept, conf, prio) ==
    [department |-> dept, confidence_score |-> conf, priority |-> prio]

parse_ai_text_response(markers) ==
    LET hit == CASE "engineering" \in markers -> "Engineering"
                 [] "finance" \in markers -> "Finance"
                 [] "hr" \in markers -> "Human Resources"
                 [] "operations" \in markers -> "Operations"
                 [] "safety" \in markers -> "Safety & Security"
                 [] OTHER -> "Administration"
    IN RagResult(Some(hit),
                 Some(IF markers \cap TextMarkers = {} THEN Pct(50) ELSE Pct(75)),
                 Some("normal"))

fallback_classification_general_default(content) ==
    LET content_lower == Lower(content)
    IN IF AnyIn({"maintenance", "repair", "track", "signal", "infrastructure"}, content_lower)
       THEN RagResult(Some("Engineering"), Some(Pct(60)), Some("normal"))
       ELSE IF AnyIn({"budget", "payment", "cost", "invoice"}, content_lower)
       THEN RagResult(Some("Finance"), Some(Pct(60)), Some("normal"))
       ELSE RagResult(Some("General"), Some(Pct(30)), Some("normal"))

fallback_classification(content) ==
    LET content_lower == Lower(content)
    IN IF AnyIn({"maintenance", "repair", "track", "signal", "infrastructure"}, content_lower)
       THEN RagResult(Some("Engineering"), Some(Pct(60)), Some("normal"))
       ELSE IF AnyIn({"budget", "payment", "cost", "invoice"}, content_lower)
       THEN RagResult(Some("Finance"), Some(Pct(60)), Some("normal"))
       ELSE RagResult(Some("Administration"), Some(Pct(30)), Some("normal"))

\* The value classify_with_enhanced_ai returns; Returned(None) is Python's None,
\* which the function returns when a 200 answer holds no '{'.
Returned(v) == [raised |-> FALSE, value |-> v]
Raised == [raised |-> TRUE, value |-> None]

classify_with_enhanced_ai(content, ai) ==
    CASE ai.kind \in FailKinds -> Returned(Some(fallback_classification(content)))
      [] ai.kind = "no_brace" -> Returned(None)
      [] ai.kind = "bad_json" -> Returned(Some(parse_ai_text_response(ai.markers)))
      [] ai.kind = "json" ->
            IF ai.department = Some("null")
            THEN \* None.lower() raises AttributeError, caught by the outer handler
                 Returned(Some(fallback_classification(content)))
            ELSE Returned(Some(RagResult(
                     Some(normalize_department_name(Get(ai.department, "Administration"))),
                     ai.confidence, ai.priority)))

\* full_text = f"{filename} {subject} {document_content}".strip()
FullText(document_content, filename, subject) == filename \o subject \o document_content

analyze_with_rag(document_content, filename, subject, ai) ==
    LET ai_result == classify_with_enhanced_ai(
                         FullText(document_content, filename, subject), ai)
    IN IF ai_result.value = None
       THEN Raised   \* ai_result['rag_context'] = ... on None: TypeError
       ELSE Returned(Get(ai_result.value, None))

-----------------------------------------------------------------------------
(* SmartRouter: the keyword router used when no RAG classifier exists.     *)
(* The tables hold the English keywords; no token of the model is written  *)
(* in Malayalam script, so the Malayalam entries can never match.          *)

DepartmentOrder == <<"engineering", "finance", "hr", "admin", "safety", "operations">>

department_keywords(dept) ==
    CASE dept = "engineering" ->
            {"maintenance", "repair", "technical", "equipment", "machinery",
             "infrastructure", "construction", "mechanical", "electrical", "metro",
             "train", "track", "signal", "platform", "station", "rail"}
      [] dept = "finance" ->
            {"budget", "payment", "invoice", "cost", "expense", "financial",
             "accounting", "procurement", "purchase", "money", "tender", "contract"}
      [] dept = "hr" ->
            {"employee", "staff", "personnel", "leave", "attendance", "training",
             "recruitment", "salary", "benefits", "policy", "transfer"}
      [] dept = "admin" ->
            {"administrative", "office", "supplies", "facility", "security",
             "general", "coordination", "management", "policy", "meeting"}
      [] dept = "safety" ->
            {"safety", "hazard", "risk", "accident", "emergency", "incident",
             "compliance", "audit", "inspection", "protocol", "fire", "evacuation"}
      [] dept = "operations" ->
            {"schedule", "timetable", "service", "passenger", "operation", "control",
             "monitoring", "performance", "delay", "disruption"}

urgent_keywords ==
    {"urgent", "emergency", "critical", "immediate", "asap", "breakdown",
     "failure", "accident", "incident", "disruption", "fire", "evacuation"}

high_keywords ==
    {"important", "priority", "deadline", "schedule", "maintenance",
     "repair", "inspection", "safety", "compliance"}

determine_priority(content) ==
    IF AnyIn(urgent_keywords, content) THEN "urgent"
    ELSE IF AnyIn(high_keywords, content) THEN "high"
    ELSE "normal"

\* every keyword is one word, so its weight len(keyword.split()) is 1
DeptScore(dept, content_lower) ==
    Cardinality({kw \in department_keywords(dept) : In(kw, content_lower)})

Min(a, b) == IF a < b THEN a ELSE b
Max(a, b) == IF a > b THEN a ELSE b

\* min((score / max(total_words, 1)) * 100, 100), in hundredths, rounded down
Relevance(score, total_words) ==
    Min((score * Pct(100)) \div Max(total_words, 1), Pct(100))

BestDept_last_of_ties(content_lower) ==
    LET top == CHOOSE m \in 0..100 :
                   /\ \E i \in 1..Len(DepartmentOrder) :
                          DeptScore(DepartmentOrder[i], content_lower) = m
                   /\ \A i \in 1..Len(DepartmentOrder) :
                          DeptScore(DepartmentOrder[i], content_lower) <= m
        last == CHOOSE i \in 1..Len(DepartmentOrder) :
                   /\ DeptScore(DepartmentOrder[i], content_lower) = top
                   /\ \A j \in (i + 1)..Len(DepartmentOrder) :
                          DeptScore(DepartmentOrder[j], content_lower) # top
    IN DepartmentOrder[last]

\* max(department_scores, key=score): the first department, in table order,
\* among those with the highest score
BestDept(content_lower) ==
    LET top == CHOOSE m \in 0..100 :
                   /\ \E i \in 1..Len(DepartmentOrder) :
                          DeptScore(DepartmentOrder[i], content_lower) = m
                   /\ \A i \in 1..Len(DepartmentOrder) :
                          DeptScore(DepartmentOrder[i], content_lower) <= m
        first == CHOOSE i \in 1..Len(DepartmentOrder) :
                   /\ DeptScore(DepartmentOrder[i], content_lower) = top
                   /\ \A j \in 1..(i - 1) :
                          DeptScore(DepartmentOrder[j], content_lower) # top
    IN DepartmentOrder[first]

Routing(dept, conf, prio) ==
    [assigned_department |-> dept, confidence |-> conf, priority |-> prio]

route_document(content) ==
    LET content_lower == Lower(content)
        total_words == Len(content)
        priority == determine_priority(content_lower)
        matched == \E i \in 1..Len(DepartmentOrder) :
                       DeptScore(DepartmentOrder[i], content_lower) > 0
        best_dept == BestDept(content_lower)
    IN IF matched
       THEN Routing(Some(best_dept),
                    Some(Relevance(DeptScore(best_dept, content_lower), total_words)),
                    Some(priority))
       ELSE Routing(Some("admin"), Some(Pct(10)), Some(priority))

-----------------------------------------------------------------------------
(* The multi-department analysis, by its outcome: it raises (the handler    *)
(* then goes on as if one department had been found), or it finds several  *)
(* departments and names a primary one.                                    *)

MDOutcomes ==
    {[kind |-> "raise"],
     [kind |-> "multi", primary_department |-> Some("Electrical"),
      confidence |-> Some(80)]}

-----------------------------------------------------------------------------
(* MultiDepartmentClassifier.  A dictionary keyed by department is kept as  *)
(* the sequence of its keys in insertion order; of the result the fields    *)
(* about the departments are kept.                                          *)

kmrl_departments ==
    <<"Engineering", "Rolling Stock & Mechanical", "Electrical", "Signalling",
      "Operations", "Safety & Security", "Environment">>

simple_keywords(dept) ==
    CASE dept = "Engineering" -> {"track", "civil", "infrastructure"}
      [] dept = "Rolling Stock & Mechanical" -> {"train", "brake", "mechanical"}
      [] dept = "Electrical" -> {"electrical", "power", "voltage"}
      [] dept = "Signalling" -> {"signal", "communication"}
      [] dept = "Operations" -> {"station", "platform", "passenger"}
      [] dept = "Safety & Security" -> {"safety", "security", "cctv"}
      [] dept = "Environment" -> {"cleaning", "environment", "water"}

RECURSIVE KeepInOrder(_, _, _)
\* the entries of order from place i on that are in keep, in their order
KeepInOrder(order, keep, i) ==
    IF i > Len(order) THEN <<>>
    ELSE (IF order[i] \in keep THEN <<order[i]>> ELSE <<>>)
             \o KeepInOrder(order, keep, i + 1)

\* the departments one of whose keywords occurs in the text
KeywordDepartments(content) ==
    LET content_lower == Lower(content)
    IN KeepInOrder(kmrl_departments,
                   {kmrl_departments[i] : i \in
                       {j \in 1..Len(kmrl_departments) :
                           AnyIn(simple_keywords(kmrl_departments[j]), content_lower)}},
                   1)

\* the function fills departments and ends without a return statement: the
\* caller receives Python's None
fallback_department_detection(content) ==
    LET departments == KeywordDepartments(content)
    IN None

\* mentions: the department names that occur in the answer
parse_text_departments_response(mentions) ==
    KeepInOrder(kmrl_departments, mentions, 1)

\* the JSON answer keeps its keys that are KMRL departments; an answer that is
\* no JSON is searched for department names; a failed call (exception,
\* timeout, status other than 200) ends in the fallback
detect_departments_with_rag(content, ai) ==
    CASE ai.kind = "json" ->
            Some(KeepInOrder(ai.departments,
                             {kmrl_departments[i] : i \in 1..Len(kmrl_departments)}, 1))
      [] ai.kind = "text" -> Some(parse_text_departments_response(ai.mentions))
      [] OTHER -> fallback_department_detection(content)

determine_primary_department_with_rag(departments, ai) ==
    IF departments = <<>> THEN "Operations"
    ELSE IF Len(departments) = 1 THEN departments[1]
    ELSE IF ai.kind = "text" /\ \E i \in 1..Len(departments) : departments[i] \in ai.mentions
    THEN departments[CHOOSE i \in 1..Len(departments) :
                        /\ departments[i] \in ai.mentions
                        /\ \A j \in 1..(i - 1) : departments[j] \notin ai.mentions]
    ELSE departments[1]

\* detect_ai and primary_ai: what the calls of steps 1 and 4 come back with.
\* Step 1 is followed by list(departments_detected.keys()), which raises
\* AttributeError on None.
analyze_multi_department_document(content, detect_ai, primary_ai) ==
    LET departments_detected == detect_departments_with_rag(content, detect_ai)
    IN IF departments_detected = None THEN [raised |-> TRUE, value |-> None]
       ELSE LET departments == Get(departments_detected, <<>>)
            IN [raised |-> FALSE,
                value |->
                    [is_multi_department |-> Len(departments) > 1,
                     departments_count |-> Len(departments),
                     departments_detected |-> departments,
                     primary_department |->
                         determine_primary_department_with_rag(departments, primary_ai)]]

\* the answers to the department-detection call
DetectOutcomes ==
    AIFailures \cup
    {[kind |-> "json", departments |-> <<"Electrical", "Signalling">>],
     [kind |-> "json", departments |-> <<"Finance", "Operations">>],
     [kind |-> "json", departments |-> <<>>],
     [kind |-> "text", mentions |-> {"Engineering", "Operations"}],
     [kind |-> "text", mentions |-> {}]}

\* the answers to the primary-department call
PrimaryOutcomes ==
    AIFailures \cup
    {[kind |-> "text", mentions |-> {"Signalling"}],
     [kind |-> "text", mentions |-> {"Operations", "Finance"}],
     [kind |-> "text", mentions |-> {}]}

-----------------------------------------------------------------------------
(* DocumentProcessor: extraction of the text of a binary file.  The bytes   *)
(* of a file are described by what each library makes of them: it raises,   *)
(* or it extracts a text (<<>> when it finds none).                         *)

LibraryRaises == [raised |-> TRUE]
LibraryReturns(text) == [raised |-> FALSE, text |-> text]

PdfLimitedText ==
    <<"PDF", "processed", "but", "limited", "text", "found.", "This", "may", "be",
      "an", "image-based", "PDF", "that", "requires", "OCR", "processing.">>

PdfFailedText == <<"PDF", "file", "processed", "but", "text", "extraction", "failed">>

ExcelFailedText == <<"Excel", "file", "detected", "but", "processing", "failed:", "error">>

WordFailedText == <<"Word", "document", "processing", "error:", "error">>

OcrFailedText == <<"Image", "OCR", "processing", "error:", "error">>

OcrNoText == <<"Image", "processed", "but", "no", "text", "detected", "via", "OCR">>

\* f"File processed but no text content extracted from {filename}"
NoTextPlaceholder(filename) ==
    <<"File", "processed", "but", "no", "text", "content", "extracted", "from", filename>>

Extracted(text, processing_method) ==
    [text |-> text, processing_method |-> processing_method]

\* the text a library extracted, "" when it raised or found nothing
TextOf(outcome) == IF outcome.raised THEN <<>> ELSE outcome.text

extract_pdf_content(binary_data, available) ==
    LET plumber == IF available THEN TextOf(binary_data.pdfplumber) ELSE <<>>
        pypdf2 == IF available THEN TextOf(binary_data.pypdf2) ELSE <<>>
        \* Method 3, reached when neither library returned a text
        method3 == Extracted(PdfLimitedText, "pdf_limited_text")
        \* after the try block
        final == IF method3.text = <<>>
                 THEN Extracted(PdfFailedText, "pdf_failed")
                 ELSE method3
    IN IF plumber # <<>> THEN Extracted(plumber, "pdfplumber_enhanced")
       ELSE IF pypdf2 # <<>> THEN Extracted(pypdf2, "pypdf2")
       ELSE final

extract_excel_content(binary_data, available) ==
    IF ~available THEN Extracted(<<>>, "unknown")
    ELSE IF ~binary_data.openpyxl.raised
    THEN Extracted(binary_data.openpyxl.text, "openpyxl")
    ELSE IF ~binary_data.pandas.raised
    THEN Extracted(binary_data.pandas.text, "pandas")
    ELSE Extracted(ExcelFailedText, "excel_failed")

extract_word_content(binary_data, available) ==
    IF ~available THEN Extracted(<<>>, "unknown")
    ELSE IF ~binary_data.docx.raised
    THEN Extracted(binary_data.docx.text, "python-docx-enhanced")
    ELSE Extracted(WordFailedText, "word_failed")

extract_image_content(binary_data, available) ==
    IF ~available THEN Extracted(<<>>, "unknown")
    ELSE IF binary_data.ocr.raised THEN Extracted(OcrFailedText, "ocr_failed")
    ELSE IF NonBlank(binary_data.ocr.text)
    THEN Extracted(binary_data.ocr.text, "tesseract_ocr")
    ELSE Extracted(OcrNoText, "ocr_no_text")

\* A text as detect_language sees it: the number of its characters in the
\* Malayalam block, of its ASCII letters, of its other characters (digits,
\* punctuation, inner blanks), and of the blanks at its two ends.
Chars(malayalam, english, other, pad) ==
    [malayalam |-> malayalam, english |-> english, other |-> other, pad |-> pad]

\* len(text.strip())
StrippedLen(text) == text.malayalam + text.english + text.other

detect_language_unstripped(text) ==
    LET malayalam_chars == text.malayalam
        english_chars == text.english
        total_chars == malayalam_chars + english_chars
    IN IF StrippedLen(text) + text.pad < 10 THEN "unknown"
       ELSE IF total_chars = 0 THEN "unknown"
       ELSE IF /\ 10 * malayalam_chars > 3 * total_chars
               /\ 10 * english_chars > 3 * total_chars
       THEN "mixed_en_ml"
       ELSE IF 10 * malayalam_chars > 5 * total_chars THEN "malayalam"
       ELSE IF 10 * english_chars > 7 * total_chars THEN "english"
       ELSE "mixed"

\* the ratios are quotients of two small integers, so "ratio > 0.3" is
\* 10 * count > 3 * total_chars, and likewise for 0.5 and 0.7
detect_language(text) ==
    LET malayalam_chars == text.malayalam
        english_chars == text.english
        total_chars == malayalam_chars + english_chars
    IN IF StrippedLen(text) < 10 THEN "unknown"
       ELSE IF total_chars = 0 THEN "unknown"
       ELSE IF /\ 10 * malayalam_chars > 3 * total_chars
               /\ 10 * english_chars > 3 * total_chars
       THEN "mixed_en_ml"
       ELSE IF 10 * malayalam_chars > 5 * total_chars THEN "malayalam"
       ELSE IF 10 * english_chars > 7 * total_chars THEN "english"
       ELSE "mixed"

\* filename.lower().split('.')[-1] if '.' in filename else ''
FileExt(filename) ==
    CASE filename = "report.pdf" -> "pdf"
      [] filename = "REPORT.PDF" -> "pdf"
      [] filename = "data.xlsx" -> "xlsx"
      [] filename = "letter.docx" -> "docx"
      [] filename = "scan.png" -> "png"
      [] filename = "notes.txt" -> "txt"
      [] filename = "report.pdf.txt" -> "txt"
      [] filename = "attachment_0" -> ""
      [] OTHER -> ""

\* "word in mime_type.lower()"
MimeHas(word, mime_type) ==
    CASE mime_type = "application/pdf" -> word = "pdf"
      [] mime_type = "application/vnd.ms-excel" -> word = "excel"
      [] mime_type = "application/vnd.openxmlformats-officedocument.spreadsheetml.sheet" ->
            word \in {"spreadsheet", "document"}
      [] mime_type = "application/msword" -> word = "word"
      [] mime_type = "image/png" -> word = "image"
      [] mime_type = "text/plain" -> word = "text"
      [] OTHER -> FALSE

\* the extraction the dispatch of process_binary_file selects
Dispatch(binary_data, filename, mime_type, available) ==
    LET file_ext == FileExt(filename)
    IN IF file_ext = "pdf" \/ MimeHas("pdf", mime_type)
       THEN extract_pdf_content(binary_data, available)
       ELSE IF \/ file_ext \in {"xlsx", "xls"}
               \/ MimeHas("excel", mime_type)
               \/ MimeHas("spreadsheet", mime_type)
       THEN extract_excel_content(binary_data, available)
       ELSE IF file_ext \in {"docx", "doc"} \/ MimeHas("word", mime_type)
       THEN extract_word_content(binary_data, available)
       ELSE IF \/ file_ext \in {"png", "jpg", "jpeg", "tiff", "bmp"}
               \/ MimeHas("image", mime_type)
       THEN extract_image_content(binary_data, available)
       ELSE IF file_ext = "txt" \/ MimeHas("text", mime_type)
       THEN Extracted(binary_data.decoded, "text_decode")
       ELSE Extracted(binary_data.decoded, "fallback_text_decode")

process_binary_file(binary_data, filename, mime_type, available) ==
    LET extracted == Dispatch(binary_data, filename, mime_type, available)
    IN IF NonBlank(extracted.text)
       THEN [text |-> extracted.text,
             processing_method |-> extracted.processing_method,
             success |-> TRUE]
       ELSE [text |-> NoTextPlaceholder(filename),
             processing_method |-> extracted.processing_method,
             success |-> FALSE]

\* the bytes of a file, by what the libraries make of them
Bytes(pdfplumber, pypdf2, office, ocr, decoded) ==
    [pdfplumber |-> pdfplumber, pypdf2 |-> pypdf2, openpyxl |-> office,
     pandas |-> office, docx |-> office, ocr |-> ocr, decoded |-> decoded]

\* what a library may make of the bytes handed to it
LibraryOutcomes ==
    {LibraryRaises} \cup
    {LibraryReturns(text) : text \in SeqsUpTo({"hello", "budget", "repair"}, MaxWords)}

-----------------------------------------------------------------------------
(* The documents table *)

calculate_content_hash(content) == <<"sha256", content>>

\* hashlib.md5(content_to_analyze.encode('utf-8')).hexdigest(): a digest of 32
\* hexadecimal digits, never equal to a SHA-256 digest of 64
md5_hexdigest(content) == <<"md5", content>>

Metadata(hash, mid, count, pstatus) ==
    [content_hash |-> hash, message_id |-> mid, update_count |-> count,
     processing_status |-> pstatus]

Rows == 1..Len(docs)

IdsInUse == {docs[i].id : i \in Rows}

\* a generated identifier (uuid4 part): one no row carries yet
FreshId(kind) == <<kind, Len(docs) + 1>>

ExternalIds == {<<"n8n", 1>>, <<"n8n", 2>>}

MessageIds == {"", "m1"}

\* the "source" field of the request
Sources == {"email", "gmail"}

KMRLDocument == <<"KMRL", "Document">>
UploadName == <<"report.txt">>

SetRow(i, row) == [docs EXCEPT ![i] = row]

UpdateCount(row) == Get(row.metadata.update_count, 0)

RowOfId(id) == {i \in Rows : docs[i].id = id}


-----------------------------------------------------------------------------
(* POST /webhook/document *)

\* routing_result of the request, or the exception that ends it with a 500
WebhookRouting(content, ai, md) ==
    IF rag_classifier
    THEN LET rag == analyze_with_rag(content, <<>>, <<>>, ai)
         IN IF rag.raised THEN Raised
            ELSE IF md.kind = "multi"
            THEN Returned(Routing(
                     Some(Get(md.primary_department, "Operations")),
                     Some(Get(md.confidence, Pct(80))),
                     Some(Get(rag.value.priority, "high"))))
            ELSE Returned(Routing(
                     Some(Get(rag.value.department, "Administration")),
                     Some(Get(rag.value.confidence_score, Pct(70))),
                     Some(Get(rag.value.priority, "normal"))))
    ELSE Returned(route_document(content))

DuplicateRows_any_message_id(content_hash, message_id, source) ==
    LET by_content == {i \in Rows : docs[i].metadata.content_hash = Some(content_hash)}
        by_message == {i \in Rows : /\ docs[i].metadata.message_id = Some(message_id)
                                    /\ docs[i].source = source}
    IN IF by_content # {} THEN by_content ELSE by_message

\* the rows the duplicate check may pick (data[0] of a query without ORDER BY):
\* by content hash first, by message id and source only when the first is empty
DuplicateRows(content_hash, message_id, source) ==
    LET by_content == {i \in Rows : docs[i].metadata.content_hash = Some(content_hash)}
        by_message == {i \in Rows : /\ docs[i].metadata.message_id = Some(message_id)
                                    /\ docs[i].source = source}
    IN IF by_content # {} THEN by_content
       ELSE IF message_id # "" THEN by_message
       ELSE {}

MergeUpdate_resets_failed(row, routing, content_hash) ==
    [row EXCEPT
        !.assigned_department = routing.assigned_department,
        !.priority = routing.priority,
        !.confidence = routing.confidence,
        !.status = IF row.status = "failed" THEN "pending" ELSE row.status,
        !.metadata = [row.metadata EXCEPT
                         !.content_hash = Some(content_hash),
                         !.update_count = Some(Get(row.metadata.update_count, 0) + 1)]]

\* update_data applied to the duplicate row
MergeUpdate(row, routing, content_hash) ==
    [row EXCEPT
        !.assigned_department = routing.assigned_department,
        !.priority = routing.priority,
        !.confidence = routing.confidence,
        !.metadata = [row.metadata EXCEPT
                         !.content_hash = Some(content_hash),
                         !.update_count = Some(Get(row.metadata.update_count, 0) + 1)]]

\* processed_doc
NewWebhookDoc(content, message_id, source, routing, content_hash) ==
    [id |-> FreshId("kmrl"),
     origin |-> "webhook_document",
     title |-> KMRLDocument,
     content |-> content,
     source |-> source,
     status |-> "pending",
     assigned_department |-> routing.assigned_department,
     priority |-> routing.priority,
     confidence |-> routing.confidence,
     metadata |-> Metadata(Some(content_hash), Some(message_id), Some(0), None)]

\* what the model keeps of a response: the endpoint, the HTTP status and, of the
\* request, the text submitted
Response(op, code, text) == [op |-> op, code |-> code, text |-> text]

\* ai is the kind of answer the text-generation collaborator gave during the
\* request
WebhookResponse(code, text, ai) ==
    [op |-> "webhook_document", code |-> code, text |-> text, ai |-> ai.kind]

process_document_webhook(content, message_id, source, ai, md) ==
    LET routing == WebhookRouting(content, ai, md)
        content_hash == md5_hexdigest(content)
        duplicates == DuplicateRows(content_hash, message_id, source)
    IN /\ IF ~NonBlank(content)
          THEN /\ resp' = WebhookResponse(400, content, ai)
               /\ UNCHANGED docs
          ELSE IF routing.raised
          THEN /\ resp' = WebhookResponse(500, content, ai)
               /\ UNCHANGED docs
          ELSE IF duplicates # {}
          THEN \E i \in duplicates :
                  /\ Get(docs[i].metadata.update_count, 0) < MaxUpdates
                  /\ docs' = SetRow(i, MergeUpdate(docs[i], routing.value, content_hash))
                  /\ resp' = WebhookResponse(200, content, ai)
          ELSE /\ Len(docs) < MaxDocs
               /\ docs' = Append(docs, NewWebhookDoc(content, message_id, source,
                                                    routing.value, content_hash))
               /\ resp' = WebhookResponse(200, content, ai)
       /\ UNCHANGED <<gmail, other_run, rag_classifier, drain, call, web>>

-----------------------------------------------------------------------------
(* POST /webhook/document followed database call by database call: the      *)
(* request reads (duplicate lookup), then writes (update of the duplicate,  *)
(* or insert and, after a conflict on the id, one more insert).  Requests   *)
(* run side by side; web[r] holds the locals of request r and, once it has  *)
(* returned, its response.                                                  *)

\* an uploaded file of the request
File(filename, mime_type, binary_data) ==
    [filename |-> filename, mime_type |-> mime_type, binary_data |-> binary_data]

\* processing_results
ProcessingResults(files, available) ==
    [i \in 1..Len(files) |->
        process_binary_file(files[i].binary_data, files[i].filename,
                            files[i].mime_type, available)]

RECURSIVE ExtractedContent(_, _, _)
\* extracted_content after the files from i on: the text of every result with
\* success and a text, under the line "File: <filename>"
ExtractedContent(files, results, i) ==
    IF i > Len(files) THEN <<>>
    ELSE (IF results[i].success /\ NonBlank(results[i].text)
          THEN <<"File:", files[i].filename>> \o results[i].text
          ELSE <<>>) \o ExtractedContent(files, results, i + 1)

\* content_to_analyze
ContentToAnalyze(main_content, files, results) ==
    IF NonBlank(main_content)
    THEN main_content \o ExtractedContent(files, results, 1)
    ELSE ExtractedContent(files, results, 1)

\* the locals of a request: code is 0 until the request returns; written tells
\* whether its database write was carried out
Request(content, message_id, source, results) ==
    [pc |-> "write", code |-> 0, content |-> content, message_id |-> message_id,
     source |-> source, processing_results |-> results, routing |-> None,
     duplicate_doc |-> None, attempts |-> <<>>, written |-> FALSE]

\* the request returns; every answer after the validation is "success"
Return(req, code, written) ==
    [req EXCEPT !.pc = "done", !.code = code, !.written = written,
                !.routing = None, !.duplicate_doc = None]

WebhookBegin(r, main_content, files, message_id, source, ai, md, available) ==
    LET results == ProcessingResults(files, available)
        content == ContentToAnalyze(main_content, files, results)
        routing == WebhookRouting(content, ai, md)
        content_hash == md5_hexdigest(content)
        duplicates == DuplicateRows(content_hash, message_id, source)
        req == Request(content, message_id, source, results)
    IN /\ web[r].pc \in {"idle", "done"}
       /\ IF ~NonBlank(content)
          THEN web' = [web EXCEPT ![r] = Return(req, 400, FALSE)]
          ELSE IF routing.raised
          THEN web' = [web EXCEPT ![r] = Return(req, 500, FALSE)]
          ELSE IF duplicates # {}
          THEN \E i \in duplicates :
                  web' = [web EXCEPT ![r] =
                             [req EXCEPT !.routing = Some(routing.value),
                                         !.duplicate_doc = Some(docs[i])]]
          ELSE web' = [web EXCEPT ![r] = [req EXCEPT !.routing = Some(routing.value)]]
       /\ UNCHANGED <<gmail, other_run, rag_classifier, docs, drain, resp, call>>

\* the update of the duplicate row: the columns of update_data, the metadata
\* being those the request read with update_data's keys laid over them
UpdateDuplicate(row, req) ==
    LET merged == MergeUpdate(Get(req.duplicate_doc, row), Get(req.routing, row),
                              md5_hexdigest(req.content))
    IN [row EXCEPT !.assigned_department = merged.assigned_department,
                   !.priority = merged.priority,
                   !.confidence = merged.confidence,
                   !.metadata = merged.metadata]

\* db_ok: the database carries the statement out (it does not when the
\* connection or the statement fails)
WebhookUpdate(r, db_ok) ==
    LET req == web[r]
        duplicate_doc == Get(req.duplicate_doc, <<>>)
    IN /\ req.pc = "write"
       /\ req.duplicate_doc # None
       /\ UpdateCount(duplicate_doc) < MaxUpdates
       /\ IF db_ok
          THEN docs' = [i \in Rows |-> IF docs[i].id = duplicate_doc.id
                                       THEN UpdateDuplicate(docs[i], req)
                                       ELSE docs[i]]
          ELSE UNCHANGED docs
       /\ web' = [web EXCEPT ![r] = Return(req, 200, db_ok)]
       /\ UNCHANGED <<gmail, other_run, rag_classifier, drain, resp, call>>

\* the answer of the database to an insert of a row with this id
InsertOutcome(id, db_ok) ==
    IF id \in IdsInUse THEN "duplicate_key"
    ELSE IF db_ok THEN "ok"
    ELSE "error"

\* "duplicate key" in error_message.lower() or "23505" in error_message
IsUniquenessConflict_any_error(outcome) == outcome # "ok"

IsUniquenessConflict(outcome) == outcome = "duplicate_key"

Attempt(id, outcome) == [id |-> id, outcome |-> outcome]

\* the ids the generator of the first attempt may produce, and those of the
\* second: one no row carries, or one a row carries already
FirstIds == {FreshId("kmrl")} \cup {id \in IdsInUse : id[1] = "kmrl"}
RetryIds == {FreshId("kmrl_retry")} \cup {id \in IdsInUse : id[1] = "kmrl_retry"}

\* processed_doc of the request with the id of the attempt
ProcessedDoc(req, id) ==
    [NewWebhookDoc(req.content, req.message_id, req.source, Get(req.routing, <<>>),
                   md5_hexdigest(req.content))
        EXCEPT !.id = id]

WebhookInsert(r, id, db_ok) ==
    LET req == web[r]
        outcome == InsertOutcome(id, db_ok)
        attempts == <<Attempt(id, outcome)>>
    IN /\ req.pc = "write"
       /\ req.duplicate_doc = None
       /\ IF outcome = "ok"
          THEN /\ Len(docs) < MaxDocs
               /\ docs' = Append(docs, ProcessedDoc(req, id))
               /\ web' = [web EXCEPT ![r] =
                             Return([req EXCEPT !.attempts = attempts], 200, TRUE)]
          ELSE IF IsUniquenessConflict(outcome)
          THEN /\ web' = [web EXCEPT ![r] =
                             [req EXCEPT !.pc = "retry", !.attempts = attempts]]
               /\ UNCHANGED docs
          ELSE /\ web' = [web EXCEPT ![r] =
                             Return([req EXCEPT !.attempts = attempts], 200, FALSE)]
               /\ UNCHANGED docs
       /\ UNCHANGED <<gmail, other_run, rag_classifier, drain, resp, call>>

WebhookRetry(r, id, db_ok) ==
    LET req == web[r]
        outcome == InsertOutcome(id, db_ok)
        attempts == Append(req.attempts, Attempt(id, outcome))
    IN /\ req.pc = "retry"
       /\ IF outcome = "ok"
          THEN /\ Len(docs) < MaxDocs
               /\ docs' = Append(docs, ProcessedDoc(req, id))
               /\ web' = [web EXCEPT ![r] =
                             Return([req EXCEPT !.attempts = attempts], 200, TRUE)]
          ELSE /\ web' = [web EXCEPT ![r] =
                             Return([req EXCEPT !.attempts = attempts], 200, FALSE)]
               /\ UNCHANGED docs
       /\ UNCHANGED <<gmail, other_run, rag_classifier, drain, resp, call>>

-----------------------------------------------------------------------------
(* POST /webhook/store-document (a JSON request without binary data) *)

\* multi_dept_classifier.analyze_document does not exist: with a classifier the
\* call raises AttributeError and the keyword fallback of the handler runs
StoreDocumentRouting(content, filename) ==
    IF rag_classifier
    THEN LET content_lower == Lower(content)
             filename_lower == Lower(filename)
         IN IF \/ In("finance", filename_lower)
               \/ AnyIn({"budget", "revenue", "expense"}, content_lower)
            THEN Routing(Some("Finance"), Some(Pct(75)), Some("normal"))
            ELSE IF AnyIn({"maintenance", "engineering", "repair", "inspection"},
                          content_lower)
            THEN Routing(Some("Engineering"), Some(Pct(75)), Some("normal"))
            ELSE IF \/ In("hr", filename_lower)
                    \/ AnyIn({"employee", "performance"}, content_lower)
            THEN Routing(Some("HR"), Some(Pct(75)), Some("normal"))
            ELSE Routing(Some("General"), Some(Pct(50)), Some("normal"))
    ELSE Routing(Some("General"), Some(Pct(50)), Some("normal"))

\* doc_data
NewStoredDoc(document_id, content, filename, source) ==
    LET routing == StoreDocumentRouting(content, filename)
    IN [id |-> document_id,
        origin |-> "store_document",
        title |-> filename,
        content |-> content,
        source |-> source,
        status |-> "processed",
        assigned_department |-> routing.assigned_department,
        priority |-> routing.priority,
        confidence |-> routing.confidence,
        metadata |-> Metadata(Some(calculate_content_hash(content)), None, None, None)]

store_document_webhook(document_id, content, filename, source) ==
    /\ IF document_id \in IdsInUse
       THEN \* the insert violates the primary key
            /\ resp' = Response("store_document", 500, content)
            /\ UNCHANGED docs
       ELSE /\ Len(docs) < MaxDocs
            /\ docs' = Append(docs, NewStoredDoc(document_id, content, filename, source))
            /\ resp' = Response("store_document", 200, content)
    /\ UNCHANGED <<gmail, other_run, rag_classifier, drain, call, web>>

-----------------------------------------------------------------------------
(* check_document_exists, POST /api/upload, chat upload *)

check_document_exists(filename, content) ==
    LET content_hash == calculate_content_hash(content)
        existing_by_name == {i \in Rows : docs[i].title = filename}
        existing_by_content ==
            {i \in Rows : docs[i].metadata.content_hash = Some(content_hash)}
    IN [exists_by_name |-> existing_by_name # {},
        exists_by_content |-> existing_by_content # {},
        existing_content_docs |-> existing_by_content,
        content_hash |-> content_hash,
        is_duplicate |-> existing_by_content # {}]

\* doc_data of the upload: no priority and no confidence column is written
NewUploadDoc(origin, content, filename, department, priority) ==
    [id |-> FreshId("db"),
     origin |-> origin,
     title |-> filename,
     content |-> content,
     source |-> "upload",
     status |-> "processed",
     assigned_department |-> Some(department),
     priority |-> priority,
     confidence |-> None,
     metadata |-> Metadata(Some(calculate_content_hash(content)), None, None, None)]

\* the routing call raises (see StoreDocumentRouting) or is skipped: in both
\* cases routed_department is the department of the form
ai_upload_document(content, filename, department, force_upload) ==
    /\ IF ~force_upload /\ check_document_exists(filename, content).is_duplicate
       THEN /\ resp' = Response("upload", 409, content)
            /\ UNCHANGED docs
       ELSE /\ Len(docs) < MaxDocs
            /\ docs' = Append(docs, NewUploadDoc("upload", content, filename,
                                                 department, None))
            /\ resp' = Response("upload", 200, content)
    /\ UNCHANGED <<gmail, other_run, rag_classifier, drain, call, web>>

ChatResponse(type, text) ==
    [op |-> "chat", code |-> 200, type |-> type, text |-> text]

\* handle_chat_upload_action; the HTTP status is 200 in every case and the
\* response's type tells the outcome
handle_chat_upload_action(content, filename, department, urgency) ==
    /\ IF check_document_exists(filename, content).is_duplicate
       THEN /\ resp' = ChatResponse("duplicate_warning", content)
            /\ UNCHANGED docs
       ELSE IF rag_classifier
       THEN \* multi_dept_classifier.analyze_document raises AttributeError
            /\ resp' = ChatResponse("upload_error", content)
            /\ UNCHANGED docs
       ELSE /\ Len(docs) < MaxDocs
            /\ docs' = Append(docs, NewUploadDoc("chat", content, filename,
                                                 department, Some(urgency)))
            /\ resp' = ChatResponse("upload_success", content)
    /\ UNCHANGED <<gmail, other_run, rag_classifier, drain, call, web>>

-----------------------------------------------------------------------------
(* POST /api/tasks/<task_id>/complete *)

CompletedRow(row) ==
    [row EXCEPT !.status = "completed",
                !.metadata = Metadata(None, None, None, None)]

complete_task(task_id) ==
    /\ IF RowOfId(task_id) = {}
       THEN /\ resp' = [op |-> "complete_task", code |-> 404]
            /\ UNCHANGED docs
       ELSE /\ docs' = [i \in Rows |-> IF docs[i].id = task_id
                                       THEN CompletedRow(docs[i]) ELSE docs[i]]
            /\ resp' = [op |-> "complete_task", code |-> 200]
    /\ UNCHANGED <<gmail, other_run, rag_classifier, drain, call, web>>

-----------------------------------------------------------------------------
(* POST /api/process-pending: process_pending_documents.  One run is a     *)
(* sequence of steps, one per database call; the rows it works on are the  *)
(* ones its first query returned.                                          *)

BatchLimit == 10

RECURSIVE SelectPending(_)
\* the indexes from i on of the rows with status pending, oldest first
SelectPending(i) ==
    IF i > Len(docs) THEN <<>>
    ELSE IF docs[i].status = "pending" THEN <<docs[i]>> \o SelectPending(i + 1)
    ELSE SelectPending(i + 1)

PendingDocs == SubSeq(SelectPending(1), 1, Min(BatchLimit, Len(SelectPending(1))))

DrainResponse(processed_count, failed_count, total_pending) ==
    [op |-> "process_pending", code |-> 200,
     processed_count |-> processed_count, failed_count |-> failed_count,
     total_pending |-> total_pending]

Running(batch, idx, pc, processed_count, failed_count) ==
    [pc |-> pc, pending_docs |-> batch, idx |-> idx,
     processed_count |-> processed_count, failed_count |-> failed_count]

\* the update of one row by id, changed[i] being what the update makes of row i;
\* the other rows are left alone
UpdateById(id, changed) ==
    [i \in Rows |-> IF docs[i].id = id THEN changed[i] ELSE docs[i]]

\* the end of one iteration of the loop: the next document, or the response
Advance(processed_count, failed_count) ==
    IF drain.idx < Len(drain.pending_docs)
    THEN /\ drain' = Running(drain.pending_docs, drain.idx + 1, "loop",
                             processed_count, failed_count)
         /\ UNCHANGED resp
    ELSE /\ drain' = IdleDrain
         /\ resp' = DrainResponse(processed_count, failed_count,
                                  Len(drain.pending_docs))

DrainStart ==
    /\ drain.pc = "idle"
    /\ IF PendingDocs = <<>>
       THEN /\ resp' = [op |-> "process_pending", code |-> 200, processed_count |-> 0]
            /\ UNCHANGED drain
       ELSE /\ drain' = Running(PendingDocs, 1, "loop", 0, 0)
            /\ UNCHANGED resp
    /\ UNCHANGED <<gmail, other_run, rag_classifier, docs, call, web>>

\* the first update of an iteration; doc is the row as the run's query saw it
MarkProcessing(doc, row) ==
    [row EXCEPT !.status = "processing",
                !.metadata = [doc.metadata EXCEPT !.processing_status = Some("processing")]]

DrainMark ==
    /\ drain.pc = "loop"
    /\ LET doc == drain.pending_docs[drain.idx]
       IN IF ~NonBlank(doc.content)
          THEN \* continue
               /\ Advance(drain.processed_count, drain.failed_count)
               /\ UNCHANGED docs
          ELSE /\ docs' = UpdateById(doc.id, [i \in Rows |-> MarkProcessing(doc, docs[i])])
               /\ drain' = [drain EXCEPT !.pc = "classify"]
               /\ UNCHANGED resp
    /\ UNCHANGED <<gmail, other_run, rag_classifier, call, web>>

MarkProcessed(doc, row, rag_result) ==
    [row EXCEPT
        !.assigned_department = Some(Get(rag_result.department, "Administration")),
        !.confidence = Some(Get(rag_result.confidence_score, Pct(70))),
        !.priority = Some(Get(rag_result.priority, "normal")),
        !.status = "processed",
        !.metadata = [doc.metadata EXCEPT !.processing_status = Some("completed")]]

\* the smart-router branch writes no priority
MarkRouted(doc, row, routing_result) ==
    [row EXCEPT
        !.assigned_department = routing_result.assigned_department,
        !.confidence = routing_result.confidence,
        !.status = "processed",
        !.metadata = [doc.metadata EXCEPT !.processing_status = Some("completed")]]

MarkFailed_leaves_processing(doc, row) ==
    [row EXCEPT !.metadata = [doc.metadata EXCEPT !.processing_status = Some("failed")]]

\* the handler of an exception in the iteration
MarkFailed(doc, row) ==
    [row EXCEPT !.status = "failed",
                !.metadata = [doc.metadata EXCEPT !.processing_status = Some("failed")]]

\* classification of the document marked processing, and the update that
\* records its outcome
DrainClassify(ai) ==
    /\ drain.pc = "classify"
    /\ LET doc == drain.pending_docs[drain.idx]
           rag == analyze_with_rag(doc.content, doc.title, doc.title, ai)
       IN IF rag_classifier
          THEN IF rag.raised
               THEN /\ docs' = UpdateById(doc.id, [i \in Rows |-> MarkFailed(doc, docs[i])])
                    /\ Advance(drain.processed_count, drain.failed_count + 1)
               ELSE /\ docs' = UpdateById(doc.id,
                                   [i \in Rows |-> MarkProcessed(doc, docs[i], rag.value)])
                    /\ Advance(drain.processed_count + 1, drain.failed_count)
          ELSE /\ docs' = UpdateById(doc.id,
                              [i \in Rows |-> MarkRouted(doc, docs[i], route_document(doc.content))])
               /\ Advance(drain.processed_count + 1, drain.failed_count)
    /\ UNCHANGED <<gmail, other_run, rag_classifier, call, web>>

\* the scheduler turns to the other worker: its run takes the next steps
DrainSwitch ==
    /\ drain' = other_run
    /\ other_run' = drain
    /\ UNCHANGED <<gmail, rag_classifier, docs, resp, call, web>>

\* the process running the drain dies between two steps
DrainCrash ==
    /\ drain.pc # "idle"
    /\ drain' = IdleDrain
    /\ UNCHANGED <<gmail, other_run, rag_classifier, docs, resp, call, web>>

-----------------------------------------------------------------------------
(* GmailIngestionService: the mailbox holds emails with the keyword, each    *)
(* unread or read; uploaded holds the attachments the backend accepted.     *)

EmailIds == {"e1", "e2"}

\* get_attachments: the document attachments of an email
DocumentAttachments(message_id) ==
    IF message_id = "e1" THEN <<"a1", "a2">> ELSE <<>>

IdlePoll == [pc |-> "idle"]

EmptyMailbox == [mailbox |-> {}, unread |-> {}, uploaded |-> {}, poll |-> IdlePoll]

\* an email with the keyword arrives
EmailArrives(message_id) ==
    /\ message_id \notin gmail.mailbox
    /\ gmail' = [gmail EXCEPT !.mailbox = @ \cup {message_id},
                              !.unread = @ \cup {message_id}]
    /\ UNCHANGED <<rag_classifier, docs, drain, resp, call, web, other_run>>

RECURSIVE ListOf(_)
\* the emails of a set as the list the API returns
ListOf(ids) ==
    IF ids = {} THEN <<>>
    ELSE LET first == CHOOSE id \in ids : \A other \in ids : id = "e1" \/ other # "e1"
         IN <<first>> \o ListOf(ids \ {first})

\* api_ok: the list request does not raise HttpError
get_unread_kmrl_emails(api_ok) ==
    IF api_ok THEN ListOf(gmail.unread) ELSE <<>>

\* run_once up to its loop: the list of unread emails is fetched
RunOnce(api_ok) ==
    /\ gmail.poll.pc = "idle"
    /\ LET messages == get_unread_kmrl_emails(api_ok)
       IN gmail' = IF messages = <<>> THEN gmail
                   ELSE [gmail EXCEPT !.poll = [pc |-> "emails", messages |-> messages,
                                                idx |-> 1]]
    /\ UNCHANGED <<rag_classifier, docs, drain, resp, call, web, other_run>>

\* what becomes of one attachment: downloaded and uploaded, or one of the two
\* fails
AttachmentOutcomes == {"uploaded", "download_failed", "upload_failed"}

\* mark_as_read, called at the end of process_email whatever became of the
\* attachments (every_uploaded); mark_ok: the modify request does not raise
mark_as_read(unread, message_id, every_uploaded, mark_ok) ==
    IF mark_ok THEN unread \ {message_id} ELSE unread

\* one iteration of the loop of run_once: process_email on the next email.
\* details_ok: get_message_details returned the message
process_email(details_ok, outcome, mark_ok) ==
    /\ gmail.poll.pc = "emails"
    /\ LET message_id == gmail.poll.messages[gmail.poll.idx]
           attachments == DocumentAttachments(message_id)
           places == 1..Len(attachments)
           done == {attachments[k] : k \in {j \in places : outcome[j] = "uploaded"}}
           poll == IF gmail.poll.idx < Len(gmail.poll.messages)
                   THEN [gmail.poll EXCEPT !.idx = @ + 1]
                   ELSE IdlePoll
       IN /\ DOMAIN outcome = places
          /\ gmail' = IF ~details_ok
                      THEN [gmail EXCEPT !.poll = poll]
                      ELSE [gmail EXCEPT
                               !.uploaded = @ \cup done,
                               !.unread = mark_as_read(@, message_id,
                                                       \A j \in places : outcome[j] = "uploaded",
                                                       mark_ok),
                               !.poll = poll]
    /\ UNCHANGED <<rag_classifier, docs, drain, resp, call, web, other_run>>

-----------------------------------------------------------------------------
(* Initial states *)


Init ==
    /\ rag_classifier \in BOOLEAN
    /\ docs = <<>>
    /\ drain = IdleDrain
    /\ resp = NoResp
    /\ call = NoCall
    /\ web = [r \in WebRequests |-> IdleRequest]
    /\ other_run = IdleDrain
    /\ gmail = EmptyMailbox

-----------------------------------------------------------------------------
(* Steps and rows the properties speak about *)

Channels == {"webhook_document", "store_document", "upload", "chat"}

\* a request through channel ch was answered in this step
IntakeStep(ch) ==
    /\ drain' = drain
    /\ resp'.op = ch
    /\ <<docs', resp'>> # <<docs, resp>>

\* the request answered in this step repeats the text of the request answered
\* just before it, which went through channel ch and was stored
RepeatsStored(ch) ==
    /\ resp.op = ch
    /\ resp.code = 200
    /\ ch = "chat" => resp.type = "upload_success"
    /\ resp'.text = resp.text
    /\ \E i \in Rows : docs[i].content = resp.text

\* the step changed no row but one, whose update_count it raised by one, and
\* added none
MergedInto(i) ==
    /\ Len(docs') = Len(docs)
    /\ docs'[i].metadata.update_count = Some(UpdateCount(docs[i]) + 1)
    /\ \A j \in Rows \ {i} : docs'[j] = docs[j]

\* C1: for every intake channel, submitting the same content twice in sequence
\* through that channel leaves one stored row for that content, and the second
\* submission raises that row's update_count by one instead of adding a row
\* (second submissions that end in a server error are left aside).
C1_SameContentTwice ==
    [][\A ch \in Channels :
          (IntakeStep(ch) /\ RepeatsStored(ch) /\ resp'.code # 500) =>
              \E i \in Rows : docs[i].content = resp'.text /\ MergedInto(i)]_vars

\* C2: when the same text is ingested through /webhook/document and then through
\* /api/upload, or the other way round, the second ingestion updates the record
\* of the first (update_count = 1) and creates no record with a new id.
C2_CrossChannel ==
    [][\A first, second \in {"webhook_document", "upload"} :
          (first # second /\ IntakeStep(second) /\ RepeatsStored(first)) =>
              \E i \in Rows :
                  /\ docs[i].content = resp'.text
                  /\ MergedInto(i)
                  /\ docs'[i].id = docs[i].id]_vars

\* C4: when the text-generation collaborator answers with a text that cannot be
\* parsed as a JSON object (a text without any '{' included), /webhook/document
\* still stores the document and answers without an error.
C4_UnparseableAnswer ==
    (/\ resp.op = "webhook_document"
     /\ resp.ai \in {"no_brace", "bad_json"}
     /\ NonBlank(resp.text)) =>
        /\ resp.code = 200
        /\ \E i \in Rows : docs[i].metadata.content_hash = Some(md5_hexdigest(resp.text))

\* C5: every document whose text holds an urgent-tier keyword is stored with
\* priority urgent, whichever tier produced its department.
C5_UrgentKeyword ==
    \A i \in Rows :
        (/\ docs[i].origin = "webhook_document"
         /\ AnyIn(urgent_keywords, Lower(docs[i].content))) =>
            docs[i].priority = Some("urgent")

-----------------------------------------------------------------------------
(* The queue *)

\* the counts of the run after the step
CountsAfter ==
    IF drain'.pc = "idle"
    THEN [processed |-> resp'.processed_count, failed |-> resp'.failed_count]
    ELSE [processed |-> drain'.processed_count, failed |-> drain'.failed_count]

\* the run recorded the outcome of the classification of its current document
ClassifiedStep ==
    /\ drain.pc = "classify"
    /\ drain' # drain
    /\ docs' # docs

\* the classification of doc can raise / can return the values row carries
CanRaise(doc) ==
    /\ rag_classifier
    /\ \E ai \in AIOutcomes : analyze_with_rag(doc.content, doc.title, doc.title, ai).raised

CanReturn(doc, row) ==
    IF rag_classifier
    THEN \E ai \in AIOutcomes :
            LET rag == analyze_with_rag(doc.content, doc.title, doc.title, ai)
            IN /\ ~rag.raised
               /\ row.assigned_department = Some(Get(rag.value.department, "Administration"))
    ELSE row.assigned_department = route_document(doc.content).assigned_department

C7_PendingEventuallyDone ==
    /\ \A i \in 1..MaxDocs :
          (i \in Rows /\ docs[i].status = "pending")
              ~> (i \in Rows /\ docs[i].status \in {"processed", "failed"})
    /\ []((resp.op = "process_pending" /\ "total_pending" \in DOMAIN resp) =>
              resp.processed_count + resp.failed_count = resp.total_pending)

\* C8: after a run died between marking a document processing and marking it
\* processed or failed, a further run brings that document to processed or
\* failed: once a run has returned and none is under way, no document is in
\* status processing.
C8_RerunRecovers ==
    (drain.pc = "idle" /\ resp.op = "process_pending") =>
        \A i \in Rows : docs[i].status # "processing"

StatusRank(status) ==
    CASE status = "pending" -> 0
      [] status = "processing" -> 1
      [] status \in {"processed", "failed"} -> 2

\* a move of the status the state machine allows
AllowedMove(from, to) ==
    /\ to \in StatusSet
    /\ \/ from = to
       \/ from = "failed" /\ to = "pending"
       \/ from \in StatusSet /\ StatusRank(from) < StatusRank(to)

\* C9: over any sequence of operations on a document its status only moves
\* forward along pending -> processing -> processed or failed, the one backward
\* move being failed -> pending, and it never takes a value outside pending,
\* processing, processed, failed.
C9_StatusForward ==
    [][\A i \in Rows : AllowedMove(docs[i].status, docs'[i].status)]_vars

\* a duplicate submission was merged into row i in this step
MergeStep(i) ==
    /\ drain' = drain
    /\ resp'.op = "webhook_document"
    /\ MergedInto(i)

\* C10 as stated: the merge of a duplicate leaves the status of the existing
\* record unchanged, except that a record in status failed is moved to pending.
C10_MergeResetsFailed ==
    [][\A i \in Rows :
          MergeStep(i) =>
              docs'[i].status = IF docs[i].status = "failed" THEN "pending"
                                ELSE docs[i].status]_vars

\* C10 as amended: the merge of a duplicate leaves the status of the existing
\* record unchanged whatever it is; a record in status failed stays failed.
C10_MergeKeepsStatus ==
    [][\A i \in Rows : MergeStep(i) => docs'[i].status = docs[i].status]_vars

\* the only document failed in a run that returned, and a later submission of
\* its content was merged into it: it is still failed
C10_Witness ==
    /\ drain.pc = "idle"
    /\ resp.op = "webhook_document"
    /\ resp.code = 200
    /\ Len(docs) = 1
    /\ docs[1].content = resp.text
    /\ docs[1].status = "failed"
    /\ docs[1].metadata.processing_status = Some("failed")
    /\ docs[1].metadata.update_count = Some(MaxUpdates)

-----------------------------------------------------------------------------
(* The duplicate lookup of /webhook/document *)

\* the rows whose stored hash is the hash of the text of the request answered
\* in this step
SameHashRows == {i \in Rows : docs[i].metadata.content_hash = Some(md5_hexdigest(resp'.text))}

-----------------------------------------------------------------------------
(* The columns of a document record *)

\* C15: every document record written by intake or by the drain of the queue
\* has a confidence within 0..100 and a priority among urgent, high, normal
\* and low, also when the values come from the answer of the external
\* classifier.
C15_ValuesInRange ==
    \A i \in Rows :
        /\ docs[i].confidence \subseteq 0..Pct(100)
        /\ docs[i].priority \subseteq Priorities

\* C16: every document record written by an intake path or by the drain of
\* the queue has an assigned department from one closed vocabulary, the same
\* for all paths and all tiers of the classification.
C16_ClosedVocabulary ==
    \A i \in Rows : docs[i].assigned_department \subseteq ClosedVocabulary

\* C17: when the external classifier is unavailable, a document whose text
\* contains budget, payment and invoice is routed to the Finance department
\* with a confidence of min(100, keyword score / number of words x 100).
C17_KeywordRatio ==
    [][(/\ resp'.op = "webhook_document"
        /\ resp' # resp
        /\ resp'.code = 200
        /\ resp'.ai \in FailKinds
        /\ \A kw \in {"budget", "payment", "invoice"} : In(kw, Lower(resp'.text))
        /\ Len(docs') = Len(docs) + 1)
       => LET row == docs'[Len(docs')]
              content_lower == Lower(resp'.text)
          IN /\ row.assigned_department \subseteq {"Finance", "finance"}
             /\ row.assigned_department # None
             /\ row.confidence =
                    Some(Relevance(DeptScore("finance", content_lower),
                                   Len(content_lower)))]_vars

-----------------------------------------------------------------------------
(* Two /webhook/document requests at the same time *)

\* C20: after any interleaving of two concurrent /webhook/document requests
\* that carry the same content, of which no record existed, exactly one
\* document row with that content hash exists.
C20_OneRowPerHash ==
    (/\ \A r \in WebRequests : web[r].pc = "done" /\ web[r].code = 200
     /\ web["r1"].content = web["r2"].content)
    => Cardinality({i \in Rows : docs[i].metadata.content_hash =
                                      Some(md5_hexdigest(web["r1"].content))}) = 1

\* request r merges its submission into the record it read as duplicate
MergeWritten(r) ==
    /\ web[r].pc = "write"
    /\ web[r].duplicate_doc # None
    /\ web'[r].pc = "done"
    /\ web'[r].written

\* C21: a record's metadata.update_count equals the number of duplicate
\* submissions merged into it: it is 0 on creation and every merge raises it
\* by exactly one, also when two duplicate submissions for the same record
\* are handled concurrently.
C21_CountsEveryMerge ==
    [][\A r \in WebRequests :
          MergeWritten(r) =>
              \E i \in Rows :
                  /\ docs[i].id = Get(web[r].duplicate_doc, <<>>).id
                  /\ docs'[i].metadata.update_count = Some(UpdateCount(docs[i]) + 1)]_vars

-----------------------------------------------------------------------------
(* POST /webhook/store-document called again *)

\* C19: calling POST /webhook/store-document again with the same documentId
\* and content is tolerated: the second call creates no second row and does
\* not end in a hard error.
C19_ReentrantCall ==
    [][(/\ resp'.op = "store_document"
        /\ \E i \in Rows : /\ docs[i].id = <<"n8n", 1>>
                            /\ docs[i].origin = "store_document"
                            /\ docs[i].content = resp'.text)
       => /\ Len(docs') = Len(docs)
          /\ resp'.code = 200]_vars

-----------------------------------------------------------------------------
(* Two runs of process_pending_documents at the same time *)

\* the worker of drain marks its current document as processing
MarkStep ==
    /\ drain.pc = "loop"
    /\ drain'.pc = "classify"
    /\ other_run' = other_run

\* the worker of drain classifies its current document and records the outcome
ClassifyStep ==
    /\ drain.pc = "classify"
    /\ drain' # drain
    /\ other_run' = other_run

\* C27: when two process_pending_documents runs execute concurrently, each
\* pending document is classified by at most one of them, and a document one
\* run already marked processed is never set back to processing by the other.
C27_OneRunPerDocument ==
    [][\A i \in Rows :
          LET doc == drain.pending_docs[drain.idx]
          IN /\ (ClassifyStep /\ docs[i].id = doc.id) =>
                    docs[i].status \notin {"processed", "failed"}
             /\ (MarkStep /\ docs[i].id = doc.id) =>
                    docs[i].status # "processed"]_vars

-----------------------------------------------------------------------------
(* The content fingerprint of an existing document *)

\* C28: no operation on an existing document removes its
\* metadata.content_hash: after a duplicate merge, a drain of the queue or
\* the completion of a task the document still carries the fingerprint by
\* which a later submission of the same content is detected as its duplicate.
C28_FingerprintKept ==
    \A i \in Rows : docs[i].metadata.content_hash # None

-----------------------------------------------------------------------------
(* The multi-department analysis *)

\* C29: analyze_multi_department_document returns a result and does not
\* raise when the external department-detection call fails: it then uses the
\* keyword-based fallback detection, and the primary department it reports
\* is one of the detected departments whenever there is any.
C29_FallbackDetection ==
    (call.made /\ call.detect_ai.kind \in FailKinds) =>
        /\ ~call.result.raised
        /\ LET detected == call.result.value.departments_detected
           IN /\ detected = KeywordDepartments(call.content)
              /\ detected # <<>> =>
                     \E i \in 1..Len(detected) :
                         detected[i] = call.result.value.primary_department

-----------------------------------------------------------------------------
(* The Gmail ingestion *)

\* C30: process_email marks an email as read only after every document
\* attachment of that email was downloaded and uploaded to the backend; an
\* email with a failed attachment stays unread for a later poll, so no
\* attachment is lost.
C30_ReadMeansUploaded ==
    \A message_id \in gmail.mailbox \ gmail.unread :
        \A k \in 1..Len(DocumentAttachments(message_id)) :
            DocumentAttachments(message_id)[k] \in gmail.uploaded

-----------------------------------------------------------------------------
(* The keyword router *)

\* place of a department in the keyword table
TablePlace(dept) == CHOOSE i \in 1..Len(DepartmentOrder) : DepartmentOrder[i] = dept

-----------------------------------------------------------------------------
(* The dispatch of process_binary_file *)

\* the format an extension names, "none" when it names no supported format
FormatOfExt(file_ext) ==
    CASE file_ext = "pdf" -> "pdf"
      [] file_ext \in {"xlsx", "xls"} -> "excel"
      [] file_ext \in {"docx", "doc"} -> "word"
      [] file_ext \in {"png", "jpg", "jpeg", "tiff", "bmp"} -> "image"
      [] file_ext = "txt" -> "text"
      [] OTHER -> "none"

\* the format a declared mime type names
FormatOfMime(mime_type) ==
    CASE mime_type = "application/pdf" -> "pdf"
      [] mime_type = "application/vnd.ms-excel" -> "excel"
      [] mime_type = "application/msword" -> "word"
      [] mime_type = "image/png" -> "image"
      [] mime_type = "text/plain" -> "text"
      [] OTHER -> "none"

\* the handler that sets a processing method
FormatOfMethod(processing_method) ==
    CASE processing_method \in {"pdfplumber_enhanced", "pypdf2", "pdf_limited_text",
                                "pdf_failed"} -> "pdf"
      [] processing_method \in {"openpyxl", "pandas", "excel_failed"} -> "excel"
      [] processing_method \in {"python-docx-enhanced", "word_failed"} -> "word"
      [] processing_method \in {"tesseract_ocr", "ocr_failed", "ocr_no_text"} -> "image"
      [] processing_method = "text_decode" -> "text"
      [] OTHER -> "none"

\* C25: process_binary_file selects the format handler by the file extension
\* first and consults the declared mime type only when the extension matches
\* no handler: a file whose extension names one supported format and whose
\* mime type names another is handled by the handler of the extension.
C25_ExtensionFirst ==
    (call.made /\ "mime_type" \in DOMAIN call) =>
        FormatOfMethod(call.result.processing_method) =
            IF FormatOfExt(FileExt(call.filename)) # "none"
            THEN FormatOfExt(FileExt(call.filename))
            ELSE FormatOfMime(call.mime_type)

-----------------------------------------------------------------------------
(* detect_language *)

\* the language the thresholds give for a text of length len
LanguageByRatio(text, len) ==
    LET total == text.malayalam + text.english
        Over(count, percent) == 100 * count > percent * total
    IN IF len < 10 \/ total = 0 THEN "unknown"
       ELSE IF Over(text.malayalam, 30) /\ Over(text.english, 30) THEN "mixed_en_ml"
       ELSE IF Over(text.malayalam, 50) THEN "malayalam"
       ELSE IF Over(text.english, 70) THEN "english"
       ELSE "mixed"

\* C26: detect_language is a function of the numbers of Malayalam-block and
\* ASCII-alphabetic characters: with the ratios taken over their sum it returns
\* mixed_en_ml when both exceed 30%, otherwise malayalam when the Malayalam
\* ratio exceeds 50%, otherwise english when the English ratio exceeds 70%,
\* otherwise mixed; it returns unknown for a text shorter than 10 characters
\* or without such characters.
C26_LanguageOfText ==
    call.made =>
        call.language =
            LanguageByRatio(call.text, StrippedLen(call.text) + call.text.pad)

\* C26 with the length taken after the blanks at both ends are removed:
\* detect_language returns unknown when the text without its leading and
\* trailing blanks is shorter than 10 characters or has no Malayalam-block
\* and no ASCII-alphabetic character, and the language the thresholds give
\* otherwise.
C26_LanguageOfStrippedText ==
    call.made =>
        call.language = LanguageByRatio(call.text, StrippedLen(call.text))

\* nine letters and a trailing blank: ten characters, and unknown
C26_Witness ==
    /\ call.made
    /\ call.text = Chars(0, 9, 0, 1)
    /\ call.language = "unknown"

-----------------------------------------------------------------------------
(* The PDF extractor *)

\* C18: for a corrupted or unparseable PDF, on which both extraction
\* strategies raise, the extractor returns a non-empty placeholder text with
\* the processing method "pdf_failed".
C18_PdfFailed ==
    (/\ call.made
     /\ "binary_data" \in DOMAIN call
     /\ call.available
     /\ call.binary_data.pdfplumber.raised
     /\ call.binary_data.pypdf2.raised)
    => /\ call.result.text # <<>>
       /\ call.result.processing_method = "pdf_failed"

-----------------------------------------------------------------------------
(* Attachments of /webhook/document *)

\* the extraction failed or found no text: the extractor returned a placeholder
FailedExtraction(result) ==
    \/ ~result.success
    \/ result.processing_method \in
          {"pdf_limited_text", "pdf_failed", "excel_failed", "word_failed",
           "ocr_failed", "ocr_no_text"}

\* part occurs in text
Contains(text, part) ==
    \E k \in 0..(Len(text) - Len(part)) : SubSeq(text, k + 1, k + Len(part)) = part

\* C14: if the extraction of an attachment fails or yields no text,
\* /webhook/document still stores a document, classified on the placeholder
\* text the extractor returned, and does not answer with an error.
C14_PlaceholderStored ==
    \A r \in WebRequests :
        web[r].pc = "done" =>
            \A k \in 1..Len(web[r].processing_results) :
                LET result == web[r].processing_results[k]
                IN FailedExtraction(result) =>
                      /\ web[r].code = 200
                      /\ web[r].written
                      /\ Contains(web[r].content, result.text)

\* C22: for every stored document the stored content fingerprint
\* (metadata.content_hash) is the hash of the document's stored content after
\* every operation, also after a duplicate merge that matched the record by
\* message id rather than by content.
C22_FingerprintOfContent ==
    \A i \in Rows :
        docs[i].metadata.content_hash \in
            {Some(md5_hexdigest(docs[i].content)),
             Some(calculate_content_hash(docs[i].content))}

-----------------------------------------------------------------------------
(* The duplicate check of /api/upload *)

\* C23: /api/upload without force_upload is blocked as a duplicate exactly
\* when some stored document has the submitted content: a stored document
\* with the same filename and another content never blocks it, a stored
\* document with equal content always does.
C23_BlockedIffSameContent ==
    [][IntakeStep("upload") =>
          (resp'.code = 409 <=> \E i \in Rows : docs[i].content = resp'.text)]_vars

-----------------------------------------------------------------------------
(* The writes of /webhook/document *)

\* C11: when the insert of a new document fails with a uniqueness conflict on
\* the id, the request generates another id and retries the insert once: a
\* request makes at most two insert attempts, the second with a different id,
\* and it makes no second attempt after any other insert error.
C11_RetryOnce ==
    \A r \in WebRequests :
        web[r].pc # "idle" =>
            LET attempts == web[r].attempts
            IN /\ Len(attempts) <= 2
               /\ Len(attempts) = 2 =>
                     /\ attempts[1].outcome = "duplicate_key"
                     /\ attempts[2].id # attempts[1].id
               /\ web[r].pc = "retry" =>
                     Len(attempts) = 1 /\ attempts[1].outcome = "duplicate_key"
               /\ (web[r].pc = "done" /\ Len(attempts) = 1) =>
                     attempts[1].outcome \in {"ok", "error"}

\* a request whose first insert met a uniqueness conflict and whose second
\* insert, with another id, stored the document
C11_Witness ==
    \E r \in WebRequests :
        /\ web[r].pc = "done"
        /\ Len(web[r].attempts) = 2
        /\ web[r].attempts[1].outcome = "duplicate_key"
        /\ web[r].attempts[2].outcome = "ok"
        /\ \E i \in Rows : docs[i].id = web[r].attempts[2].id

\* C12: if the insert still fails after the retry, or the database write (insert
\* or update of the duplicate) fails for another reason, the request answers
\* with a hard failure; it answers success only when the row was written.
C12_SuccessMeansWritten ==
    \A r \in WebRequests :
        (web[r].pc = "done" /\ web[r].code = 200) => web[r].written

-----------------------------------------------------------------------------
(* The classifier called on its own *)

\* The classifier keeps no state between calls: one call from the initial state
\* covers every call.
Classify(text, ai) ==
    /\ rag_classifier
    /\ ~call.made
    /\ call' = [made |-> TRUE, text |-> text, ai |-> ai,
                result |-> analyze_with_rag(text, <<>>, <<>>, ai)]
    /\ UNCHANGED <<gmail, other_run, rag_classifier, docs, drain, resp, web>>

\* route_document called on its own
Route(content) ==
    /\ ~call.made
    /\ call' = [made |-> TRUE, content |-> content, routing |-> route_document(content)]
    /\ UNCHANGED <<gmail, other_run, rag_classifier, docs, drain, resp, web>>

\* process_binary_file called on its own, with the document libraries present
ExtractFile(binary_data, filename, mime_type) ==
    /\ ~call.made
    /\ call' = [made |-> TRUE, filename |-> filename, mime_type |-> mime_type,
                result |-> process_binary_file(binary_data, filename, mime_type, TRUE)]
    /\ UNCHANGED <<gmail, other_run, rag_classifier, docs, drain, resp, web>>

\* detect_language called on its own
DetectLanguage(text) ==
    /\ ~call.made
    /\ call' = [made |-> TRUE, text |-> text, language |-> detect_language(text)]
    /\ UNCHANGED <<gmail, other_run, rag_classifier, docs, drain, resp, web>>

\* analyze_multi_department_document called on its own
AnalyzeMulti(content, detect_ai, primary_ai) ==
    /\ ~call.made
    /\ call' = [made |-> TRUE, content |-> content, detect_ai |-> detect_ai,
                primary_ai |-> primary_ai,
                result |-> analyze_multi_department_document(content, detect_ai,
                                                             primary_ai)]
    /\ UNCHANGED <<gmail, other_run, rag_classifier, docs, drain, resp, web>>

\* extract_pdf_content called on its own, on the bytes of one file
ExtractPdf(binary_data, available) ==
    /\ ~call.made
    /\ call' = [made |-> TRUE, binary_data |-> binary_data, available |-> available,
                result |-> extract_pdf_content(binary_data, available)]
    /\ UNCHANGED <<gmail, other_run, rag_classifier, docs, drain, resp, web>>

IntakeNext ==
    \/ \E content \in Texts, message_id \in MessageIds,
          ai \in IntakeAIOutcomes, md \in MDOutcomes :
          process_document_webhook(content, message_id, "email", ai, md)
    \/ \E document_id \in ExternalIds, content \in FileTexts :
          store_document_webhook(document_id, content, UploadName, "n8n")
    \/ \E content \in FileTexts, force_upload \in BOOLEAN :
          ai_upload_document(content, UploadName, "General", force_upload)
    \/ \E content \in FileTexts :
          handle_chat_upload_action(content, UploadName, "General", "normal")
    \/ \E task_id \in IdsInUse \cup {<<"n8n", 1>>} : complete_task(task_id)

\* the intake endpoints alone
IntakeSpec == Init /\ [][IntakeNext]_vars

DrainNext ==
    \/ DrainStart
    \/ DrainMark
    \/ \E ai \in QueueAIOutcomes : DrainClassify(ai)

QueueNext ==
    \/ \E content \in FileTexts :
          process_document_webhook(content, "", "email", [kind |-> "exception"],
                                   [kind |-> "raise"])
    \/ \E task_id \in IdsInUse : complete_task(task_id)
    \/ DrainNext
    \/ DrainCrash

\* the queue: the endpoint that creates pending documents, the drain, task
\* completion, and the death of the process that runs the drain
QueueSpec == Init /\ [][QueueNext]_vars

\* a drain that is requested again and again, and whose process does not die at
\* the same place of every run: a step of the run that is possible again and
\* again is taken
FairQueueSpec ==
    /\ QueueSpec
    /\ WF_vars(DrainStart)
    /\ SF_vars(DrainMark)
    /\ SF_vars(\E ai \in QueueAIOutcomes : DrainClassify(ai))

\* /webhook/document requests with and without a message id, from two sources
MessageNext ==
    \E content \in FileTexts, message_id \in MessageIds, source \in Sources :
        process_document_webhook(content, message_id, source, [kind |-> "exception"],
                                 [kind |-> "raise"])

MessageSpec == Init /\ [][MessageNext]_vars

\* one /webhook/document request after the other, on a database whose
\* statements may fail
WebhookStepsNext ==
    \/ \E content \in FileTexts :
          WebhookBegin("r1", content, <<>>, "", "email", [kind |-> "exception"],
                       [kind |-> "raise"], TRUE)
    \/ \E db_ok \in BOOLEAN : WebhookUpdate("r1", db_ok)
    \/ \E id \in FirstIds, db_ok \in BOOLEAN : WebhookInsert("r1", id, db_ok)
    \/ \E id \in RetryIds, db_ok \in BOOLEAN : WebhookRetry("r1", id, db_ok)

WebhookStepsSpec == Init /\ [][WebhookStepsNext]_vars

\* /webhook/document and the drain of the queue, with a collaborator that fails
\* or answers in JSON
AnswerNext ==
    \/ \E content \in FileTexts, ai \in AnswerOutcomes :
          process_document_webhook(content, "", "email", ai, [kind |-> "raise"])
    \/ \E task_id \in IdsInUse : complete_task(task_id)
    \/ DrainStart
    \/ DrainMark
    \/ \E ai \in AnswerOutcomes : DrainClassify(ai)

AnswerSpec == Init /\ [][AnswerNext]_vars

\* a workflow that delivers every document under the same documentId, next to
\* /webhook/document and the completion of tasks
ReentrantNext ==
    \/ \E content \in FileTexts :
          store_document_webhook(<<"n8n", 1>>, content, UploadName, "n8n")
    \/ \E content \in FileTexts, message_id \in MessageIds :
          process_document_webhook(content, message_id, "email", [kind |-> "exception"],
                                   [kind |-> "raise"])
    \/ \E task_id \in IdsInUse : complete_task(task_id)

ReentrantSpec == Init /\ [][ReentrantNext]_vars

\* /api/upload without force_upload, on a table that the two webhooks fill
\* as well
UploadNext ==
    \/ \E content \in FileTexts :
          ai_upload_document(content, UploadName, "General", FALSE)
    \/ \E content \in FileTexts :
          process_document_webhook(content, "", "email", [kind |-> "exception"],
                                   [kind |-> "raise"])
    \/ \E document_id \in ExternalIds, content \in FileTexts :
          store_document_webhook(document_id, content, UploadName, "n8n")

UploadSpec == Init /\ [][UploadNext]_vars

\* the words of the texts handed to the keyword router: keywords of one
\* department, of two ("policy"), inside a longer word, and of none
RouterWords == {"budget", "payment", "repair", "policy", "incidentally", "hello", "URGENT"}

RouterTexts == SeqsUpTo(RouterWords, MaxWords)

RouterNext == \E content \in RouterTexts : Route(content)

RouterSpec == Init /\ [][RouterNext]_vars

\* detect_language on texts of up to MaxChars characters of each script
LanguageNext ==
    \E malayalam \in 0..MaxChars, english \in 0..MaxChars, other \in 0..1, pad \in 0..1 :
        DetectLanguage(Chars(malayalam, english, other, pad))

LanguageSpec == Init /\ [][LanguageNext]_vars

\* two workers that each handle POST /api/process-pending, on a queue that
\* /webhook/document fills
TwoDrainsNext ==
    \/ \E content \in FileTexts :
          process_document_webhook(content, "", "email", [kind |-> "exception"],
                                   [kind |-> "raise"])
    \/ DrainStart
    \/ DrainMark
    \/ \E ai \in QueueAIOutcomes : DrainClassify(ai)
    \/ DrainSwitch

TwoDrainsSpec == Init /\ [][TwoDrainsNext]_vars

\* the words of the texts handed to the multi-department analysis: keywords
\* of three departments and a word that is no keyword
MultiWords == {"track", "signal", "station", "hello"}

MultiNext ==
    \E content \in SeqsUpTo(MultiWords, MaxWords),
       detect_ai \in DetectOutcomes, primary_ai \in PrimaryOutcomes :
        AnalyzeMulti(content, detect_ai, primary_ai)

MultiSpec == Init /\ [][MultiNext]_vars

\* the ingestion service polling a mailbox in which emails arrive
GmailNext ==
    \/ \E message_id \in EmailIds : EmailArrives(message_id)
    \/ \E api_ok \in BOOLEAN : RunOnce(api_ok)
    \/ \E details_ok \in BOOLEAN, mark_ok \in BOOLEAN,
          outcome \in UNION {[1..m -> AttachmentOutcomes] : m \in 0..2} :
          process_email(details_ok, outcome, mark_ok)

GmailSpec == Init /\ [][GmailNext]_vars

\* the PDF extractor, on every outcome of its two libraries
ExtractorNext ==
    \E pdfplumber \in LibraryOutcomes, pypdf2 \in LibraryOutcomes, available \in BOOLEAN :
        ExtractPdf(Bytes(pdfplumber, pypdf2, LibraryRaises, LibraryRaises, <<>>), available)

ExtractorSpec == Init /\ [][ExtractorNext]_vars

\* the bytes no library can read, and those of a file without any text
Unreadable == Bytes(LibraryRaises, LibraryRaises, LibraryRaises, LibraryRaises, <<>>)
Textless ==
    Bytes(LibraryReturns(<<>>), LibraryReturns(<<>>), LibraryReturns(<<>>),
          LibraryReturns(<<>>), <<>>)

\* the attachments of the requests
Attachments ==
    {File("report.pdf", "application/pdf", Unreadable),
     File("report.pdf", "application/pdf",
          Bytes(LibraryRaises, LibraryReturns(<<"budget">>), LibraryRaises,
                LibraryRaises, <<>>)),
     File("notes.txt", "text/plain", Textless),
     File("notes.txt", "text/plain",
          Bytes(LibraryRaises, LibraryRaises, LibraryRaises, LibraryRaises, <<"repair">>)),
     File("letter.docx", "application/msword", Unreadable),
     File("letter.docx", "application/msword", Textless),
     File("scan.png", "image/png", Textless)}

\* /webhook/document requests with at most one attachment, one after the other,
\* on a database that carries every statement out
AttachmentNext ==
    \/ \E main_content \in {TBlank, THello}, available \in BOOLEAN,
          files \in {<<>>} \cup {<<file>> : file \in Attachments} :
          WebhookBegin("r1", main_content, files, "", "email", [kind |-> "exception"],
                       [kind |-> "raise"], available)
    \/ WebhookUpdate("r1", TRUE)
    \/ WebhookInsert("r1", FreshId("kmrl"), TRUE)

AttachmentSpec == Init /\ [][AttachmentNext]_vars

\* the names and the declared types of the files handed to process_binary_file
Filenames ==
    {"report.pdf", "REPORT.PDF", "data.xlsx", "letter.docx", "scan.png", "notes.txt",
     "report.pdf.txt", "attachment_0"}

MimeTypes ==
    {"application/pdf", "application/vnd.ms-excel", "application/msword", "image/png",
     "text/plain", "application/octet-stream"}

\* bytes every library reads the same text from
Readable ==
    Bytes(LibraryReturns(THello), LibraryReturns(THello), LibraryReturns(THello),
          LibraryReturns(THello), THello)

DispatchNext ==
    \E binary_data \in {Readable, Unreadable, Textless},
       filename \in Filenames, mime_type \in MimeTypes :
        ExtractFile(binary_data, filename, mime_type)

DispatchSpec == Init /\ [][DispatchNext]_vars

\* /webhook/document requests side by side, on a database that carries every
\* statement out
ConcurrentWebhookNext ==
    \/ \E r \in WebRequests, content \in FileTexts :
          WebhookBegin(r, content, <<>>, "", "email", [kind |-> "exception"],
                       [kind |-> "raise"], TRUE)
    \/ \E r \in WebRequests : WebhookUpdate(r, TRUE)
    \/ \E r \in WebRequests : WebhookInsert(r, FreshId("kmrl"), TRUE)

ConcurrentWebhookSpec == Init /\ [][ConcurrentWebhookNext]_vars

ClassifierNext == \E text \in ClassifierTexts, ai \in AIOutcomes : Classify(text, ai)

ClassifierSpec == Init /\ [][ClassifierNext]_vars

\* C3: when every call of the text-generation collaborator fails (exception,
\* timeout or non-200 status), analyze_with_rag returns without raising a result
\* whose department is in the closed vocabulary, whose priority is one of
\* urgent/high/normal/low and whose confidence lies within 0..100.
C3_FallbackValid ==
    (call.made /\ call.ai.kind \in FailKinds) =>
        /\ ~call.result.raised
        /\ call.result.value.department \subseteq ClosedVocabulary
        /\ call.result.value.department # None
        /\ call.result.value.priority \subseteq Priorities
        /\ call.result.value.priority # None
        /\ call.result.value.confidence_score \subseteq 0..Pct(100)
        /\ call.result.value.confidence_score # None

C3_Witness ==
    /\ call.made
    /\ call.ai.kind = "timeout"
    /\ In("invoice", call.text)
    /\ ~call.result.raised
    /\ call.result.value.department = Some("Finance")

====
